---- MODULE Spec2Model ----
(***************************************************************************)
(* A model of cview's ScrollView (package cview, type ScrollView): the     *)
(* item list and its mutation operations, the scroll offset, the Draw      *)
(* layout pass with its scroll bar, focus delegation and mouse routing.    *)
(***************************************************************************)
EXTENDS Integers, Sequences, FiniteSets, TLC

VARIABLES
    items,                \* f.items: the sequence of scrollItem records
    heightOffset,         \* f.heightOffset
    scrollBarVisibility,  \* f.scrollBarVisibility
    fullScreen,           \* f.fullScreen
    rect,                 \* the embedded Box's rectangle
    frame,                \* what the last operation, if it was Draw, did
    last,                 \* the last call: its name, arguments and results
    panicked,             \* a Go run-time panic has unwound the program
    pc,                   \* where each goroutine is in the call it runs
    call,                 \* the call each goroutine runs
    lockW,                \* the goroutine that holds f.RWMutex for writing, or 0
    lockR,                \* the goroutines that hold f.RWMutex for reading
    tmp                   \* the f.heightOffset each goroutine has loaded

\* The ScrollView and what is observed of its calls.
view == <<items, heightOffset, scrollBarVisibility, fullScreen, rect, frame, last,
          panicked>>

\* The goroutines and the lock.
conc == <<pc, call, lockW, lockR, tmp>>

vars == <<view, conc>>

----------------------------------------------------------------------------
(* Bounds of the model. *)

\* The longest item list the operations build.
MaxItems == 2

\* The mouse wheel stops raising heightOffset here (the code has no such stop).
MaxScroll == 3

\* The longest item list of the item-list model.
MaxListLen == 3

\* The longest item list of the drawing model.
MaxDrawItems == 3

----------------------------------------------------------------------------
(* Values. *)

\* A nil Primitive interface value.
Nil == 0

\* The application's primitives, by identity.
Prims == {1, 2}

\* The boxes NewBox() allocates for AddItem(nil, ...), by identity: negative.
Boxes == {-n : n \in 1..MaxItems}

Sizes == {0, 1, 2}

ScrollBarModes == {"ScrollBarNever", "ScrollBarAuto", "ScrollBarAlways"}

\* The size screen.Size() reports.
ScreenSize == [width |-> 2, height |-> 2]

\* The rectangles SetRect is called with.
Rects == {[x |-> 0, y |-> 0, width |-> 2, height |-> 2],
          [x |-> 1, y |-> 1, width |-> 0, height |-> 1]}

NoFrame == [ran |-> FALSE]

Max(a, b) == IF a >= b THEN a ELSE b

Min(a, b) == IF a <= b THEN a ELSE b

\* A scrollItem.
scrollItem(item, fixedSize, focus) ==
    [Item |-> item, FixedSize |-> fixedSize, Focus |-> focus]

\* NewBox(): a box no entry of the list holds.
NewBox(its) ==
    LET used == {its[i].Item : i \in 1..Len(its)}
        n == CHOOSE k \in 1..(Len(its) + 1) :
                 /\ -k \notin used
                 /\ \A j \in 1..(k - 1) : -j \in used
    IN -n

\* GetInnerRect(): a Box without border and padding; negative extents read as 0.
GetInnerRect(r) ==
    [x |-> r.x, y |-> r.y, width |-> Max(r.width, 0), height |-> Max(r.height, 0)]

\* InRect(px, py) of the Box.
InRect(r, px, py) ==
    /\ px >= r.x /\ px < r.x + r.width
    /\ py >= r.y /\ py < r.y + r.height

\* contentHeight: the sum of the items' fixed sizes.
RECURSIVE ContentHeight(_)
ContentHeight(its) ==
    IF its = <<>> THEN 0
    ELSE its[1].FixedSize + ContentHeight(Tail(its))

----------------------------------------------------------------------------
(* The item list operations. *)

\* append(f.items, &scrollItem{...}) after the nil check of AddItem.
AppendItem(its, item, fixedSize, focus) ==
    LET it == IF item = Nil THEN NewBox(its) ELSE item
    IN Append(its, scrollItem(it, fixedSize, focus))

AddItem(item, fixedSize, focus) ==
    /\ ~panicked
    /\ items' = AppendItem(items, item, fixedSize, focus)
    /\ last' = [op |-> "AddItem"]
    /\ frame' = NoFrame
    /\ UNCHANGED <<heightOffset, scrollBarVisibility, fullScreen, rect, panicked>>

\* InsertAt without the copy of the tail: append(f.items[:index], newItem)
\* overwrites f.items[index] before the tail is appended.
MutInsertAt(its, index, newItem) ==
    IF index = 0
    THEN <<newItem>> \o its
    ELSE IF index = Len(its)
         THEN Append(its, newItem)
         ELSE SubSeq(its, 1, index) \o (<<newItem, newItem>> \o SubSeq(its, index + 2, Len(its)))

\* The slice expression of AddItemAtIndex; index is within 0..len(f.items).
InsertAt(its, index, newItem) ==
    IF index = 0
    THEN <<newItem>> \o its
    ELSE SubSeq(its, 1, index) \o (<<newItem>> \o SubSeq(its, index + 1, Len(its)))

AddItemAtIndex(index, item, fixedSize, focus) ==
    /\ ~panicked
    /\ last' = [op |-> "AddItemAtIndex", index |-> index, item |-> item]
    /\ frame' = NoFrame
    /\ IF index < 0 \/ index > Len(items)
       THEN \* slice bounds out of range
            /\ panicked' = TRUE
            /\ UNCHANGED items
       ELSE /\ items' = InsertAt(items, index, scrollItem(item, fixedSize, focus))
            /\ UNCHANGED panicked
    /\ UNCHANGED <<heightOffset, scrollBarVisibility, fullScreen, rect>>

\* RemoveFrom scanning front to back: after a removal the next entry has moved
\* into the place just visited and is skipped.
RECURSIVE RemoveForward(_, _, _)
RemoveForward(its, index, p) ==
    IF index > Len(its) THEN its
    ELSE IF its[index].Item = p
         THEN RemoveForward(SubSeq(its, 1, index - 1) \o SubSeq(its, index + 1, Len(its)),
                            index + 1, p)
         ELSE RemoveForward(its, index + 1, p)

MutRemoveFrom(its, index, p) == RemoveForward(its, 1, p)

\* The loop of RemoveItem: index runs from len-1 down to 0 (here from Len to 1).
RECURSIVE RemoveFrom(_, _, _)
RemoveFrom(its, index, p) ==
    IF index < 1 THEN its
    ELSE IF its[index].Item = p
         THEN RemoveFrom(SubSeq(its, 1, index - 1) \o SubSeq(its, index + 1, Len(its)),
                         index - 1, p)
         ELSE RemoveFrom(its, index - 1, p)

RemoveItem(p) ==
    /\ ~panicked
    /\ items' = RemoveFrom(items, Len(items), p)
    /\ last' = [op |-> "RemoveItem", p |-> p, removed |-> Len(items) - Len(items')]
    /\ frame' = NoFrame
    /\ UNCHANGED <<heightOffset, scrollBarVisibility, fullScreen, rect, panicked>>

\* Resize with a break after the first match: later entries with the same
\* primitive keep their size.
MutResize(its, p, fixedSize) ==
    [i \in 1..Len(its) |->
        IF its[i].Item = p /\ \A j \in 1..(i - 1) : its[j].Item # p
        THEN [its[i] EXCEPT !.FixedSize = fixedSize] ELSE its[i]]

\* The loop of ResizeItem.
Resize(its, p, fixedSize) ==
    [i \in 1..Len(its) |->
        IF its[i].Item = p THEN [its[i] EXCEPT !.FixedSize = fixedSize] ELSE its[i]]

ResizeItem(p, fixedSize) ==
    /\ ~panicked
    /\ items' = Resize(items, p, fixedSize)
    /\ last' = [op |-> "ResizeItem", p |-> p, fixedSize |-> fixedSize]
    /\ frame' = NoFrame
    /\ UNCHANGED <<heightOffset, scrollBarVisibility, fullScreen, rect, panicked>>

\* GetItems(): the primitives of the entries, in order.
GetItems == [i \in 1..Len(items) |-> items[i].Item]

----------------------------------------------------------------------------
(* The settings. *)

ScrollTo(height, width) ==
    /\ ~panicked
    /\ heightOffset' = height
    /\ last' = [op |-> "ScrollTo", height |-> height]
    /\ frame' = NoFrame
    /\ UNCHANGED <<items, scrollBarVisibility, fullScreen, rect, panicked>>

SetScrollBarVisibility(visibility) ==
    /\ ~panicked
    /\ scrollBarVisibility' = visibility
    /\ last' = [op |-> "Set"]
    /\ frame' = NoFrame
    /\ UNCHANGED <<items, heightOffset, fullScreen, rect, panicked>>

SetFullScreen(fs) ==
    /\ ~panicked
    /\ fullScreen' = fs
    /\ last' = [op |-> "Set"]
    /\ frame' = NoFrame
    /\ UNCHANGED <<items, heightOffset, scrollBarVisibility, rect, panicked>>

\* SetRect of the embedded Box, called by the parent container.
SetRect(r) ==
    /\ ~panicked
    /\ rect' = r
    /\ last' = [op |-> "Set"]
    /\ frame' = NoFrame
    /\ UNCHANGED <<items, heightOffset, scrollBarVisibility, fullScreen, panicked>>

----------------------------------------------------------------------------
(* Draw. *)

\* ClampOffset that comes down one row per Draw instead of at once.
MutClampOffset(offset, y, contentHeight, visibleheight) ==
    IF contentHeight > visibleheight
       /\ y + offset + visibleheight > y + contentHeight
    THEN offset - 1
    ELSE offset

\* The clamp of f.heightOffset at the start of Draw.
ClampOffset(offset, y, contentHeight, visibleheight) ==
    IF contentHeight > visibleheight
       /\ y + offset + visibleheight > y + contentHeight
    THEN contentHeight - visibleheight
    ELSE offset

\* ShowVerticalScrollBar with >= for >: the bar also shows when the content
\* exactly fills the viewport.
MutShowVerticalScrollBar(visibility, contentHeight, visibleheight) ==
    \/ visibility = "ScrollBarAlways"
    \/ (visibility = "ScrollBarAuto" /\ contentHeight >= visibleheight)

\* showVerticalScrollBar.
ShowVerticalScrollBar(visibility, contentHeight, visibleheight) ==
    \/ visibility = "ScrollBarAlways"
    \/ (visibility = "ScrollBarAuto" /\ contentHeight > visibleheight)

\* width after the space for the scroll bar is subtracted.
ChildWidth(width, show) ==
    IF width > 0 /\ show THEN width - 1 ELSE width

\* Whether a child reports HasFocus().
ChildHasFocus(p, foc) == p = foc

\* The loop over f.items in Draw, from entry i on. g holds the values the loop
\* reads (x, y, width, offset, show, focused); st holds pos, posScrolled,
\* firstVisibleY, the rectangles set, the children drawn at once, the deferred
\* draws, and whether SetRect was called on a nil Item.
RECURSIVE DrawItems(_, _, _, _)
DrawItems(its, i, g, st) ==
    IF i > Len(its) THEN st
    ELSE LET item == its[i]
             size == item.FixedSize
         IN IF st.posScrolled < g.y + g.offset /\ g.show
            THEN DrawItems(its, i + 1, g, [st EXCEPT !.posScrolled = @ + size])
            ELSE LET fv == IF st.firstVisibleY = -1
                           THEN st.posScrolled ELSE st.firstVisibleY
                 IN IF item.Item = Nil
                    THEN \* item.Item.SetRect on a nil interface value
                         [st EXCEPT !.firstVisibleY = fv,
                                    !.posScrolled = @ + size,
                                    !.panic = TRUE]
                    ELSE DrawItems(its, i + 1, g,
                           [st EXCEPT
                              !.firstVisibleY = fv,
                              !.posScrolled = @ + size,
                              !.placed = Append(@, [index |-> i, x |-> g.x,
                                                    y |-> st.pos, width |-> g.width,
                                                    height |-> size]),
                              !.pos = @ + size,
                              !.order = IF ChildHasFocus(item.Item, g.focused)
                                        THEN @
                                        ELSE Append(@, [ev |-> "draw", index |-> i]),
                              !.deferred = IF ChildHasFocus(item.Item, g.focused)
                                           THEN <<[ev |-> "draw", index |-> i]>> \o @
                                           ELSE @])

\* int(x) of a float64 that is NaN or infinite: implementation-dependent
\* (the smallest int, 0, or the largest int), before the cursor's upper clamp.
UnrepresentableInts == {-(2^30), 0, 2^30}

\* The quotient a/b cut towards zero, as int() cuts a float64.
Trunc(a, b) ==
    LET n == IF b < 0 THEN -a ELSE a
        d == IF b < 0 THEN -b ELSE b
    IN IF n >= 0 THEN n \div d ELSE -((-n) \div d)

\* The values cursor can take before its upper clamp.
CursorValues(contentHeight, firstVisibleY, y, visibleheight) ==
    IF contentHeight - visibleheight = 0
    THEN UnrepresentableInts
    ELSE {Trunc(contentHeight * (firstVisibleY - y), contentHeight - visibleheight)}

\* The upper clamp of cursor.
ClampCursor(cursor, contentHeight) ==
    IF cursor > contentHeight THEN contentHeight ELSE cursor

\* RunOrder with the deferred draws run where they were deferred, before the
\* fill and the scroll bar.
MutRunOrder(atOnce, fill, render, deferred) ==
    atOnce \o deferred \o fill \o render

\* What one Draw does, in the order it does it: the draws made in the loop,
\* the fill, the scroll bar, and at the return the deferred draws.
RunOrder(atOnce, fill, render, deferred) ==
    atOnce \o fill \o render \o deferred

\* The children a Draw drew, as indices into f.items.
Drawn(f) == {f.order[i].index : i \in {j \in 1..Len(f.order) : f.order[j].ev = "draw"}}

\* Draw(screen). visible is what f.GetVisible() returns; focused is the child
\* that reports HasFocus() during this call, or Nil. The call is recorded with
\* what the Draw just before it did, when the call before it was a Draw.
Draw(visible, focused) ==
    /\ ~panicked
    /\ last' = [op |-> "Draw",
                prev |-> IF last.op = "Draw" /\ frame.ran
                         THEN <<[placed |-> frame.placed, drawn |-> Drawn(frame),
                                 offset |-> heightOffset]>>
                         ELSE <<>>]
    /\ IF ~visible
       THEN /\ frame' = NoFrame
            /\ UNCHANGED <<rect, heightOffset, panicked>>
       ELSE LET r == IF fullScreen
                     THEN [x |-> 0, y |-> 0, width |-> ScreenSize.width,
                           height |-> ScreenSize.height]
                     ELSE rect
                inner == GetInnerRect(r)
                visibleheight == inner.height
                contentHeight == ContentHeight(items)
                offset == ClampOffset(heightOffset, inner.y, contentHeight,
                                      visibleheight)
                show == ShowVerticalScrollBar(scrollBarVisibility, contentHeight,
                                              visibleheight)
                width == ChildWidth(inner.width, show)
                g == [x |-> inner.x, y |-> inner.y, width |-> width,
                      offset |-> offset, show |-> show, focused |-> focused]
                loop == DrawItems(items, 1, g,
                                  [pos |-> inner.y, posScrolled |-> inner.y,
                                   firstVisibleY |-> -1, placed |-> <<>>,
                                   order |-> <<>>, deferred |-> <<>>,
                                   panic |-> FALSE])
            IN \E st \in {loop} :  \* the loop runs once
               LET
                fillRows == IF ~st.panic /\ st.pos < inner.y + visibleheight
                            THEN inner.y + visibleheight - st.pos ELSE 0
                bar == ~st.panic /\ show
                fill == IF fillRows > 0 THEN <<[ev |-> "fill", index |-> 0]>> ELSE <<>>
                render == IF bar /\ visibleheight > 0
                          THEN <<[ev |-> "bar", index |-> 0]>> ELSE <<>>
            IN /\ rect' = r
               /\ heightOffset' = offset
               /\ panicked' = st.panic
               /\ \E c \in IF bar
                           THEN CursorValues(contentHeight, st.firstVisibleY,
                                             inner.y, visibleheight)
                           ELSE {0} :
                     frame' = [ran |-> TRUE,
                               show |-> show,
                               innerWidth |-> inner.width,
                               width |-> width,
                               y |-> inner.y,
                               visibleheight |-> visibleheight,
                               contentHeight |-> contentHeight,
                               placed |-> st.placed,
                               order |-> RunOrder(st.order, fill, render, st.deferred),
                               focused |-> focused,
                               deferred |-> st.deferred,
                               firstVisibleY |-> st.firstVisibleY,
                               fillRows |-> fillRows,
                               barRows |-> IF bar THEN visibleheight ELSE 0,
                               cursor |-> ClampCursor(c, contentHeight),
                               panic |-> st.panic]
    /\ UNCHANGED <<items, scrollBarVisibility, fullScreen>>

----------------------------------------------------------------------------
(* Focus and the mouse. *)

\* FocusCalls without the return after delegate: every flagged item is called.
RECURSIVE MutFocusCalls(_)
MutFocusCalls(its) ==
    IF its = <<>> THEN <<>>
    ELSE IF its[1].Item # Nil /\ its[1].Focus
         THEN <<its[1].Item>> \o MutFocusCalls(Tail(its))
         ELSE MutFocusCalls(Tail(its))

\* The loop of Focus: the primitives delegate is called with, in order.
RECURSIVE FocusCalls(_)
FocusCalls(its) ==
    IF its = <<>> THEN <<>>
    ELSE IF its[1].Item # Nil /\ its[1].Focus
         THEN <<its[1].Item>>
         ELSE FocusCalls(Tail(its))

\* Focus(delegate), with the delegate the application passes: it gives the
\* focus to the primitive it is called with.
Focus ==
    /\ ~panicked
    /\ LET calls == FocusCalls(items)
       IN /\ last' = [op |-> "Focus", calls |-> calls]
    /\ frame' = NoFrame
    /\ UNCHANGED <<items, heightOffset, scrollBarVisibility, fullScreen, rect, panicked>>

MouseActions == {"MouseScrollUp", "MouseScrollDown", "MouseLeftClick", "MouseMove"}

\* The positions of the mouse events.
Positions == {[x |-> 1, y |-> 1], [x |-> 9, y |-> 9]}

\* Offered without the return on consumed: every child is called.
RECURSIVE MutOffered(_, _)
MutOffered(its, consumers) ==
    IF its = <<>> THEN <<>>
    ELSE IF its[1].Item = Nil
         THEN MutOffered(Tail(its), consumers)
         ELSE <<its[1].Item>> \o MutOffered(Tail(its), consumers)

\* The loop that passes a mouse event along: the children whose handler is
\* called, in order. consumers are the children whose handler reports consumed.
RECURSIVE Offered(_, _)
Offered(its, consumers) ==
    IF its = <<>> THEN <<>>
    ELSE IF its[1].Item = Nil
         THEN Offered(Tail(its), consumers)
         ELSE IF its[1].Item \in consumers
              THEN <<its[1].Item>>
              ELSE <<its[1].Item>> \o Offered(Tail(its), consumers)

\* WheelOffset with the two wheel directions handled alike.
MutWheelOffset(action, offset) ==
    CASE action \in {"MouseScrollUp", "MouseScrollDown"} ->
             IF offset - 1 < 0 THEN 0 ELSE offset - 1
      [] OTHER -> offset

\* WheelOffset without the stop at 0 of the wheel-up case.
MutWheelUpOffset(action, offset) ==
    CASE action = "MouseScrollUp" -> offset - 1
      [] action = "MouseScrollDown" -> offset + 1
      [] OTHER -> offset

\* f.heightOffset after the switch on the mouse action.
WheelOffset(action, offset) ==
    CASE action = "MouseScrollUp" -> IF offset - 1 < 0 THEN 0 ELSE offset - 1
      [] action = "MouseScrollDown" -> offset + 1
      [] OTHER -> offset

\* The handler MouseHandler() returns, called with an event at pos.
MouseHandler(action, pos, consumers) ==
    /\ ~panicked
    /\ action = "MouseScrollDown" => heightOffset < MaxScroll
    /\ frame' = NoFrame
    /\ IF ~InRect(rect, pos.x, pos.y)
       THEN /\ last' = [op |-> "Mouse", action |-> action, inRect |-> FALSE,
                        consumers |-> consumers, offered |-> <<>>, consumed |-> FALSE]
            /\ UNCHANGED heightOffset
       ELSE IF action \in {"MouseScrollUp", "MouseScrollDown"}
            THEN /\ heightOffset' = WheelOffset(action, heightOffset)
                 /\ last' = [op |-> "Mouse", action |-> action, inRect |-> TRUE,
                             consumers |-> consumers, offered |-> <<>>, consumed |-> TRUE]
            ELSE LET offered == Offered(items, consumers)
                 IN /\ last' = [op |-> "Mouse", action |-> action, inRect |-> TRUE,
                                consumers |-> consumers, offered |-> offered,
                                consumed |-> /\ offered # <<>>
                                             /\ offered[Len(offered)] \in consumers]
                    /\ UNCHANGED heightOffset
    /\ UNCHANGED <<items, scrollBarVisibility, fullScreen, rect, panicked>>

----------------------------------------------------------------------------
(* The specifications. *)

\* The primitives entries of the list hold.
Held == {items[i].Item : i \in 1..Len(items)}

\* The arguments ScrollTo is called with.
ScrollTargets == {-1, 1, 7}

\* The goroutines of the locking model.
Procs == {1, 2}

\* NewScrollView(): no items, ScrollBarAuto; the Box has the rectangle its
\* parent gave it. No goroutine is in a call.
Init ==
    /\ items = <<>>
    /\ heightOffset = 0
    /\ scrollBarVisibility = "ScrollBarAuto"
    /\ fullScreen = FALSE
    /\ rect = [x |-> 0, y |-> 0, width |-> 2, height |-> 2]
    /\ frame = NoFrame
    /\ last = [op |-> "NewScrollView"]
    /\ panicked = FALSE
    /\ pc = [p \in Procs |-> "idle"]
    /\ call = [p \in Procs |-> [op |-> "none"]]
    /\ lockW = 0
    /\ lockR = {}
    /\ tmp = [p \in Procs |-> 0]

\* The layout model: calls made one after another, as the application's event
\* loop makes them; one primitive and nil, no focus flags, wheel events.
Next ==
    \/ /\ Len(items) < MaxItems
       /\ \E fixedSize \in Sizes : AddItem(1, fixedSize, FALSE)
       /\ UNCHANGED conc
    \/ /\ Len(items) < MaxItems
       /\ \E index \in 0..(Len(items) + 1), item \in {Nil, 1}, fixedSize \in Sizes :
              AddItemAtIndex(index, item, fixedSize, FALSE)
       /\ UNCHANGED conc
    \/ (\E p \in Held \cup {1} : RemoveItem(p)) /\ UNCHANGED conc
    \/ (\E p \in Held, fixedSize \in Sizes : ResizeItem(p, fixedSize)) /\ UNCHANGED conc
    \/ (\E height \in ScrollTargets : ScrollTo(height, 0)) /\ UNCHANGED conc
    \/ (\E visibility \in ScrollBarModes : SetScrollBarVisibility(visibility))
       /\ UNCHANGED conc
    \/ (\E fs \in BOOLEAN : SetFullScreen(fs)) /\ UNCHANGED conc
    \/ (\E r \in Rects : SetRect(r)) /\ UNCHANGED conc
    \/ (\E vis \in BOOLEAN, foc \in Held \cup {Nil} : Draw(vis, foc)) /\ UNCHANGED conc
    \/ (\E action \in {"MouseScrollUp", "MouseScrollDown"}, pos \in Positions :
           MouseHandler(action, pos, {}))
       /\ UNCHANGED conc

Spec == Init /\ [][Next]_vars

\* The item-list model: the list operations, Focus and the routing of mouse
\* events, with two primitives, nil entries, focus flags and two sizes.
NextList ==
    \/ /\ Len(items) < MaxListLen
       /\ \E item \in Prims, fixedSize \in {1, 2}, focus \in BOOLEAN :
              AddItem(item, fixedSize, focus)
       /\ UNCHANGED conc
    \/ /\ Len(items) < MaxListLen
       /\ \E index \in 0..(Len(items) + 1), item \in Prims \cup {Nil},
             fixedSize \in {1, 2}, focus \in BOOLEAN :
              AddItemAtIndex(index, item, fixedSize, focus)
       /\ UNCHANGED conc
    \/ (\E p \in Prims \cup {Nil} : RemoveItem(p)) /\ UNCHANGED conc
    \/ (\E p \in Prims \cup {Nil}, fixedSize \in {1, 2} : ResizeItem(p, fixedSize))
       /\ UNCHANGED conc
    \/ Focus /\ UNCHANGED conc
    \/ (\E pos \in Positions, consumers \in SUBSET (Held \ {Nil}) :
           MouseHandler("MouseLeftClick", pos, consumers))
       /\ UNCHANGED conc

SpecList == Init /\ [][NextList]_vars

----------------------------------------------------------------------------
(* The locking model: goroutines that call the ScrollView at the same time. *)

\* The calls the goroutines make.
LockCalls == {[op |-> "ScrollTo", height |-> 2],
              [op |-> "AddItem"],
              [op |-> "RemoveItem"],
              [op |-> "Draw"],
              [op |-> "GetItems"],
              [op |-> "Mouse", action |-> "MouseScrollDown"]}

\* What each method takes at its start: f.Lock(), f.RLock(), or neither.
LockKind(op) ==
    CASE op \in {"ScrollTo", "AddItem", "RemoveItem", "Draw"} -> "Lock"
      [] op = "GetItems" -> "RLock"
      [] op = "Mouse" -> "none"

\* Whether the method assigns to a field of the ScrollView.
Mutates(op) == op \in {"ScrollTo", "AddItem", "RemoveItem", "Draw", "Mouse"}

\* A goroutine enters a method.
Begin(p, c) ==
    /\ ~panicked
    /\ pc[p] = "idle"
    /\ c.op = "AddItem" =>
           Len(items) + Cardinality({q \in Procs : call[q].op = "AddItem"
                                                    /\ pc[q] # "idle"}) < MaxItems
    /\ call' = [call EXCEPT ![p] = c]
    /\ pc' = [pc EXCEPT ![p] = IF LockKind(c.op) = "none" THEN "read" ELSE "enter"]
    /\ UNCHANGED <<view, lockW, lockR, tmp>>

\* f.Lock(): waits until no goroutine holds the mutex.
Lock(p) ==
    /\ pc[p] = "enter"
    /\ LockKind(call[p].op) = "Lock"
    /\ lockW = 0 /\ lockR = {}
    /\ lockW' = p
    /\ pc' = [pc EXCEPT ![p] = "body"]
    /\ UNCHANGED <<view, call, lockR, tmp>>

\* f.RLock(): waits until no goroutine holds the mutex for writing.
RLock(p) ==
    /\ pc[p] = "enter"
    /\ LockKind(call[p].op) = "RLock"
    /\ lockW = 0
    /\ lockR' = lockR \cup {p}
    /\ pc' = [pc EXCEPT ![p] = "body"]
    /\ UNCHANGED <<view, call, lockW, tmp>>

\* The body of a method that has taken the mutex.
Body(p) ==
    /\ pc[p] = "body"
    /\ CASE call[p].op = "ScrollTo" -> ScrollTo(call[p].height, 0)
         [] call[p].op = "AddItem" -> AddItem(1, 1, FALSE)
         [] call[p].op = "RemoveItem" -> RemoveItem(1)
         [] call[p].op = "Draw" -> \E foc \in Held \cup {Nil} : Draw(TRUE, foc)
         [] call[p].op = "GetItems" ->
                /\ ~panicked
                /\ last' = [op |-> "GetItems", ret |-> GetItems]
                /\ frame' = NoFrame
                /\ UNCHANGED <<items, heightOffset, scrollBarVisibility, fullScreen,
                               rect, panicked>>
    /\ pc' = [pc EXCEPT ![p] = IF call[p].op = "Draw" /\ frame'.deferred # <<>>
                               THEN "deferred" ELSE "exit"]
    /\ UNCHANGED <<call, lockW, lockR, tmp>>

\* The deferred draws of the children that reported focus run: deferred after
\* f.Unlock() was deferred, they run before it.
Deferred(p) ==
    /\ pc[p] = "deferred"
    /\ pc' = [pc EXCEPT ![p] = "exit"]
    /\ UNCHANGED <<view, call, lockW, lockR, tmp>>

\* The deferred f.Unlock() or f.RUnlock().
Unlock(p) ==
    /\ pc[p] = "exit"
    /\ IF LockKind(call[p].op) = "Lock"
       THEN lockW' = 0 /\ UNCHANGED lockR
       ELSE lockR' = lockR \ {p} /\ UNCHANGED lockW
    /\ pc' = [pc EXCEPT ![p] = "idle"]
    /\ call' = [call EXCEPT ![p] = [op |-> "none"]]
    /\ UNCHANGED <<view, tmp>>

\* The mouse handler loads f.heightOffset; it has taken no lock.
MouseRead(p) ==
    /\ pc[p] = "read"
    /\ call[p].action = "MouseScrollDown" => heightOffset < MaxScroll
    /\ tmp' = [tmp EXCEPT ![p] = heightOffset]
    /\ pc' = [pc EXCEPT ![p] = "write"]
    /\ UNCHANGED <<view, call, lockW, lockR>>

\* The mouse handler stores f.heightOffset.
MouseWrite(p) ==
    /\ pc[p] = "write"
    /\ ~panicked
    /\ heightOffset' = WheelOffset(call[p].action, tmp[p])
    /\ last' = [op |-> "Mouse", action |-> call[p].action, inRect |-> TRUE,
                consumers |-> {}, offered |-> <<>>, consumed |-> TRUE]
    /\ frame' = NoFrame
    /\ pc' = [pc EXCEPT ![p] = "idle"]
    /\ call' = [call EXCEPT ![p] = [op |-> "none"]]
    /\ tmp' = [tmp EXCEPT ![p] = 0]
    /\ UNCHANGED <<items, scrollBarVisibility, fullScreen, rect, panicked, lockW,
                   lockR>>

NextLock ==
    \/ \E p \in Procs, c \in LockCalls : Begin(p, c)
    \/ \E p \in Procs : Lock(p)
    \/ \E p \in Procs : RLock(p)
    \/ \E p \in Procs : Body(p)
    \/ \E p \in Procs : Deferred(p)
    \/ \E p \in Procs : Unlock(p)
    \/ \E p \in Procs : MouseRead(p)
    \/ \E p \in Procs : MouseWrite(p)

SpecLock == Init /\ [][NextLock]_vars

\* The nil model: lists built with AddItem and AddItemAtIndex, nil included,
\* and drawn.
NextNil ==
    \/ /\ Len(items) < MaxItems
       /\ \E item \in {Nil, 1}, fixedSize \in {1, 2} : AddItem(item, fixedSize, FALSE)
       /\ UNCHANGED conc
    \/ /\ Len(items) < MaxItems
       /\ \E index \in 0..Len(items), item \in {Nil, 1}, fixedSize \in {1, 2} :
              AddItemAtIndex(index, item, fixedSize, FALSE)
       /\ UNCHANGED conc
    \/ (\E p \in Held : RemoveItem(p)) /\ UNCHANGED conc
    \/ (\E height \in {0, 1} : ScrollTo(height, 0)) /\ UNCHANGED conc
    \/ (\E visibility \in ScrollBarModes : SetScrollBarVisibility(visibility))
       /\ UNCHANGED conc
    \/ (\E foc \in Held \cup {Nil} : Draw(TRUE, foc)) /\ UNCHANGED conc

SpecNil == Init /\ [][NextNil]_vars

\* The arguments ScrollTo is called with in the drawing model.
DrawTargets == {0, 1, 2, 4}

\* The drawing model: lists of two primitives built with AddItem, scrolled,
\* and drawn in every scroll-bar mode with one child, or none, holding the focus.
NextDraw ==
    \/ /\ Len(items) < MaxDrawItems
       /\ \E item \in Prims, fixedSize \in {1, 2} : AddItem(item, fixedSize, FALSE)
       /\ UNCHANGED conc
    \/ (\E p \in Held : RemoveItem(p)) /\ UNCHANGED conc
    \/ (\E height \in DrawTargets : ScrollTo(height, 0)) /\ UNCHANGED conc
    \/ (\E visibility \in ScrollBarModes : SetScrollBarVisibility(visibility))
       /\ UNCHANGED conc
    \/ (\E r \in Rects : SetRect(r)) /\ UNCHANGED conc
    \/ (\E vis \in BOOLEAN, foc \in Held \cup {Nil} : Draw(vis, foc)) /\ UNCHANGED conc

SpecDraw == Init /\ [][NextDraw]_vars

----------------------------------------------------------------------------
(* The claims. *)

Clamp(k, lo, hi) == IF k < lo THEN lo ELSE IF k > hi THEN hi ELSE k

\* contentExtent and viewportExtent of the current state.
ContentExtent == ContentHeight(items)

ViewportExtent == GetInnerRect(rect).height

\* The ceiling of the scroll offset.
Ceiling == Max(0, ContentExtent - ViewportExtent)

MinOf(S) == CHOOSE i \in S : \A j \in S : i <= j

\* C1: ScrollTo(k) followed by Draw leaves heightOffset equal to
\* clamp(k, 0, max(0, contentExtent - viewportExtent)), for every integer k.
C1_ScrollToThenDraw ==
    [][(last.op = "ScrollTo" /\ last'.op = "Draw" /\ frame'.ran)
          => heightOffset' = Clamp(last.height, 0, Ceiling')]_vars

\* C2: after every Draw, whatever calls preceded it, heightOffset lies in
\* [0, max(0, contentExtent - viewportExtent)].
C2_OffsetInRangeAfterDraw ==
    frame.ran => (heightOffset >= 0 /\ heightOffset <= Ceiling)

\* C3: on every Draw the scroll bar decision is recomputed from the current
\* state: shown in mode ScrollBarAlways, shown in mode ScrollBarAuto exactly
\* when contentExtent > viewportExtent, never shown in mode ScrollBarNever; a
\* Draw that runs to its end renders the bar exactly when it is shown; and when
\* it is shown and the inner width is positive, every child is given the inner
\* width less 1.
C3_ScrollBarDecision ==
    frame.ran =>
        /\ scrollBarVisibility = "ScrollBarAlways" => frame.show
        /\ scrollBarVisibility = "ScrollBarAuto" =>
               (frame.show <=> ContentExtent > ViewportExtent)
        /\ scrollBarVisibility = "ScrollBarNever" => ~frame.show
        /\ ~frame.panic => frame.barRows = (IF frame.show THEN ViewportExtent ELSE 0)
        /\ ~frame.show => frame.barRows = 0
        /\ (frame.show /\ GetInnerRect(rect).width > 0) =>
               \A i \in 1..Len(frame.placed) :
                   frame.placed[i].width = GetInnerRect(rect).width - 1

\* C3 witness: mode ScrollBarAuto, content taller than the viewport, the bar
\* rendered and a child laid out one column narrower than the inner width.
C3_Witness ==
    /\ frame.ran
    /\ scrollBarVisibility = "ScrollBarAuto"
    /\ ContentExtent > ViewportExtent
    /\ frame.show /\ frame.barRows > 0
    /\ frame.placed # <<>>
    /\ frame.placed[1].width = GetInnerRect(rect).width - 1

\* C4: a MouseScrollDown event inside the rectangle raises heightOffset by
\* exactly 1; the Draw that follows such an event on content taller than the
\* viewport leaves the offset the event produced when it is within the ceiling
\* contentExtent - viewportExtent, and the ceiling otherwise, so that an event
\* at the ceiling changes nothing once the next Draw has run.
C4_WheelDown ==
    [][/\ (last'.op = "Mouse" /\ last'.action = "MouseScrollDown" /\ last'.inRect)
            => heightOffset' = heightOffset + 1
       /\ (/\ last.op = "Mouse" /\ last.action = "MouseScrollDown" /\ last.inRect
           /\ last'.op = "Draw" /\ frame'.ran
           /\ ContentExtent' > ViewportExtent')
            => heightOffset' = Min(heightOffset, ContentExtent' - ViewportExtent')]_vars

\* C4 witness: a wheel-down event arrived with the offset at the ceiling, and
\* the offset stands one above it until the next Draw.
C4_Witness ==
    /\ last.op = "Mouse" /\ last.action = "MouseScrollDown" /\ last.inRect
    /\ ContentExtent > ViewportExtent
    /\ heightOffset = ContentExtent - ViewportExtent + 1

\* C5: RemoveItem(p) removes every entry whose primitive is p and keeps the
\* other entries, with their fields, in their order; without an occurrence
\* of p the list is unchanged.
C5_RemoveItem ==
    [][last'.op = "RemoveItem"
          => /\ items' = SelectSeq(items, LAMBDA e : e.Item # last'.p)
             /\ (\A i \in 1..Len(items) : items[i].Item # last'.p) => items' = items]_vars

\* C5 witness: RemoveItem removed two or more entries and left others.
C5_Witness ==
    /\ last.op = "RemoveItem"
    /\ last.removed >= 2
    /\ items # <<>>

\* C6: for 0 <= i <= len(items), AddItemAtIndex(i, x, ...) yields a list one
\* longer with x at position i and the earlier entries in their order;
\* AddItemAtIndex(0, x, ...) on a non-empty list makes GetItems return x first.
C6_AddItemAtIndex ==
    [][(last'.op = "AddItemAtIndex" /\ last'.index >= 0 /\ last'.index <= Len(items))
          => /\ ~panicked'
             /\ Len(items') = Len(items) + 1
             /\ items'[last'.index + 1].Item = last'.item
             /\ \A j \in 1..Len(items) :
                    items'[IF j <= last'.index THEN j ELSE j + 1] = items[j]
             /\ (last'.index = 0 /\ items # <<>>) => GetItems'[1] = last'.item]_vars

\* C6 witness: an insertion in the middle of a list.
C6_Witness ==
    /\ last.op = "AddItemAtIndex"
    /\ ~panicked
    /\ last.index = 1
    /\ Len(items) = 3
    /\ GetItems[2] = last.item

\* The entries Focus can delegate to, and the entries with the focus flag.
Eligible == {i \in 1..Len(items) : items[i].Item # Nil /\ items[i].Focus}

Flagged == {i \in 1..Len(items) : items[i].Focus}

\* C7 as stated: Focus(delegate) calls delegate exactly once, with the first
\* item whose focus flag is true, and not at all when no item has the flag.
C7_FocusFirstFlagged ==
    last.op = "Focus" =>
        last.calls = IF Flagged = {} THEN <<>> ELSE <<items[MinOf(Flagged)].Item>>

\* C7 as amended: Focus(delegate) calls delegate exactly once, with the first
\* item in list order whose primitive is not nil and whose focus flag is true,
\* also when several items have the flag; when there is no such item,
\* delegate is not called.
C7_FocusFirstNonNilFlagged ==
    last.op = "Focus" =>
        last.calls = IF Eligible = {} THEN <<>> ELSE <<items[MinOf(Eligible)].Item>>

\* C7 witness: a flagged nil entry comes first, two flagged primitives follow,
\* and delegate was called once.
C7_Witness ==
    /\ last.op = "Focus"
    /\ Len(last.calls) = 1
    /\ Len(items) = 3
    /\ items[1].Item = Nil /\ items[1].Focus
    /\ Cardinality(Eligible) = 2

\* The children of the list, in item order.
Children ==
    LET kept == SelectSeq(items, LAMBDA e : e.Item # Nil)
    IN [i \in 1..Len(kept) |-> kept[i].Item]

\* C8: a mouse event other than a wheel event, inside the rectangle, is offered
\* to the children in item order up to the first that reports consumed, and
\* the ScrollView reports consumed exactly when a child did; an event outside
\* the rectangle is not consumed and reaches no child.
C8_MouseForwarding ==
    (last.op = "Mouse" /\ last.action \notin {"MouseScrollUp", "MouseScrollDown"}) =>
        IF ~last.inRect
        THEN last.offered = <<>> /\ ~last.consumed
        ELSE LET hits == {i \in 1..Len(Children) : Children[i] \in last.consumers}
             IN /\ last.consumed = (hits # {})
                /\ last.offered = SubSeq(Children, 1,
                                         IF hits = {} THEN Len(Children) ELSE MinOf(hits))

\* C8 witness: the second child consumed the event and a third was not called.
C8_Witness ==
    /\ last.op = "Mouse" /\ last.inRect /\ last.consumed
    /\ Len(last.offered) = 2
    /\ Len(Children) = 3

\* C9: a goroutine that reads or writes the fields of the ScrollView holds its
\* mutex: for writing when the method assigns to a field, for reading or
\* writing otherwise.
C9_AccessUnderLock ==
    \A p \in Procs :
        pc[p] \in {"body", "read", "write"} =>
            IF Mutates(call[p].op) THEN lockW = p ELSE (lockW = p \/ p \in lockR)

\* C10: Draw runs to its end for every item list AddItem and AddItemAtIndex
\* build, entries added with a nil primitive included.
C10_DrawCompletes ==
    frame.ran => ~frame.panic

\* C11: ResizeItem(p, s) gives the fixed size s to every entry whose primitive
\* is p and changes nothing else: the length and order of the list, the
\* primitive and focus flag of every entry, the fixed size of the entries with
\* another primitive, the scroll offset and the settings stay as they were.
C11_ResizeItem ==
    [][last'.op = "ResizeItem"
          => /\ Len(items') = Len(items)
             /\ \A i \in 1..Len(items) :
                    /\ items'[i].Item = items[i].Item
                    /\ items'[i].Focus = items[i].Focus
                    /\ items'[i].FixedSize = IF items[i].Item = last'.p
                                             THEN last'.fixedSize
                                             ELSE items[i].FixedSize
             /\ heightOffset' = heightOffset
             /\ scrollBarVisibility' = scrollBarVisibility
             /\ fullScreen' = fullScreen
             /\ rect' = rect]_vars

\* C11 witness: ResizeItem has run on a list with two entries of its primitive,
\* both now of the new size, and an entry of another primitive with another size.
C11_Witness ==
    /\ last.op = "ResizeItem"
    /\ Cardinality({i \in 1..Len(items) : items[i].Item = last.p}) = 2
    /\ \A i \in 1..Len(items) :
           items[i].Item = last.p => items[i].FixedSize = last.fixedSize
    /\ \E i \in 1..Len(items) :
           items[i].Item # last.p /\ items[i].FixedSize # last.fixedSize

\* C12: a Draw that directly follows a Draw, with no call in between, gives
\* every drawn child the rectangle the first Draw gave it, draws the same
\* children, and leaves heightOffset as the first Draw left it.
C12_DrawIdempotent ==
    (last.op = "Draw" /\ frame.ran /\ last.prev # <<>>) =>
        /\ frame.placed = last.prev[1].placed
        /\ Drawn(frame) = last.prev[1].drawn
        /\ heightOffset = last.prev[1].offset

\* C12 witness: the second of two Draw calls in a row, on a list whose first
\* entry is scrolled out and with the offset at the ceiling, has placed two
\* children.
C12_Witness ==
    /\ last.op = "Draw" /\ frame.ran /\ last.prev # <<>>
    /\ Len(frame.placed) >= 2
    /\ frame.placed[1].index > 1
    /\ heightOffset = Ceiling /\ Ceiling > 0

\* Where entry i starts in the content: the sum of the sizes before it.
StartOf(i) == ContentHeight(SubSeq(items, 1, i - 1))

\* C13: on every Draw that runs to its end, in every scroll-bar mode, the
\* entries that end at or above heightOffset get no rectangle and are not
\* drawn; the first entry that starts at or below heightOffset is the first one
\* placed, at the top of the viewport; every later child is placed directly
\* below the one before it.
C13_SkipAboveOffset ==
    (frame.ran /\ ~frame.panic) =>
        LET above == {i \in 1..Len(items) :
                         /\ StartOf(i) < heightOffset
                         /\ StartOf(i) + items[i].FixedSize <= heightOffset}
            reach == {i \in 1..Len(items) : StartOf(i) >= heightOffset}
            placedAt == {frame.placed[k].index : k \in 1..Len(frame.placed)}
        IN /\ above \cap (placedAt \cup Drawn(frame)) = {}
           /\ reach # {} =>
                  /\ frame.placed # <<>>
                  /\ frame.placed[1].index = MinOf(reach)
                  /\ frame.placed[1].y = frame.y
           /\ \A k \in 2..Len(frame.placed) :
                  frame.placed[k].y = frame.placed[k - 1].y + frame.placed[k - 1].height

\* C14: while the deferred Draw of a focused child runs, the goroutine that
\* called Draw no longer holds the ScrollView's mutex.
C14_DeferredDrawsUnlocked ==
    \A p \in Procs : pc[p] = "deferred" => lockW # p

\* Whether the child of entry i reported focus to the last Draw.
ReportsFocus(i) == ChildHasFocus(items[i].Item, frame.focused)

\* C15: within one Draw every child that reports focus is drawn after every
\* drawn child that does not, after the fill of the leftover space and after
\* the scroll bar; the children that do not report focus are drawn in item
\* order.
C15_FocusedDrawnLast ==
    frame.ran =>
        LET o == frame.order
            isFocused(k) == o[k].ev = "draw" /\ ReportsFocus(o[k].index)
        IN \A a, b \in 1..Len(o) :
              /\ (isFocused(a) /\ ~isFocused(b)) => b < a
              /\ (/\ o[a].ev = "draw" /\ o[b].ev = "draw"
                  /\ ~isFocused(a) /\ ~isFocused(b) /\ a < b)
                     => o[a].index < o[b].index

\* C15 witness: a child that reports focus comes first in the list and is
\* drawn last, after a child further down the list and after the scroll bar.
C15_Witness ==
    /\ frame.ran
    /\ Len(frame.order) = 3
    /\ frame.order[1].ev = "draw" /\ ~ReportsFocus(frame.order[1].index)
    /\ frame.order[2].ev = "bar"
    /\ frame.order[3].ev = "draw" /\ ReportsFocus(frame.order[3].index)
    /\ frame.order[3].index < frame.order[1].index

\* C16: every Draw that reaches the computation of the cursor, that is, every
\* Draw that runs to its end with the scroll bar shown, divides by a
\* contentExtent - viewportExtent that is not zero.
C16_NonZeroDivisor ==
    (frame.ran /\ ~frame.panic /\ frame.show) =>
        frame.contentHeight - frame.visibleheight # 0

\* C17: whenever Draw renders the scroll bar, the cursor it passes to the
\* renderer lies in [0, contentExtent].
C17_CursorInRange ==
    (frame.ran /\ frame.barRows > 0) =>
        (frame.cursor >= 0 /\ frame.cursor <= frame.contentHeight)

\* C18: a MouseScrollUp event inside the rectangle is consumed by the
\* ScrollView, reaches no child, and leaves heightOffset at
\* max(0, old heightOffset - 1), never negative; the item list is untouched.
C18_WheelUp ==
    [][(last'.op = "Mouse" /\ last'.action = "MouseScrollUp" /\ last'.inRect)
          => /\ last'.consumed
             /\ last'.offered = <<>>
             /\ heightOffset' = Max(0, heightOffset - 1)
             /\ heightOffset' >= 0
             /\ items' = items]_vars

\* C18 witness: a wheel-up event inside the rectangle of a ScrollView that has
\* a child was consumed without reaching the child, and the offset is at 0.
C18_Witness ==
    /\ last.op = "Mouse" /\ last.action = "MouseScrollUp" /\ last.inRect
    /\ last.consumed /\ last.offered = <<>>
    /\ Children # <<>>
    /\ heightOffset = 0

====
